---- MODULE Spec2Model ----
(***************************************************************************)
(* Model of the crypto price pipeline: the pure functions of               *)
(* include/api_utils.py (validate, transform, analyze) exercised on        *)
(* bounded batches (SpecCore), and one run of the task graph of            *)
(* dags/crypto_pipeline_dag.py under the scheduler's retry, trigger-rule   *)
(* and branch semantics (Spec).                                            *)
(***************************************************************************)
EXTENDS Integers, Sequences, FiniteSets, TLC

(***************************************************************************)
(* Bounds of the model.                                                    *)
(***************************************************************************)
\* longest batch handed to the pure functions
MaxLen == 3
\* records of one batch that are not complete, valid records
MaxIrregular == 1
\* longest batch one fetch returns in a pipeline run
MaxFetchLen == 2

(***************************************************************************)
(* Python values.  A value is None, a number or a string; the three are    *)
(* records over different fields, so that no two of them are ever equal.   *)
(* A string is the sequence of its tokens (characters, or substrings the   *)
(* code never looks into).                                                 *)
(***************************************************************************)
Null == [null |-> TRUE]
Num(n) == [num |-> n]
Str(s) == [str |-> s]
IsNull(v) == DOMAIN v = {"null"}
IsNum(v) == DOMAIN v = {"num"}
IsStr(v) == DOMAIN v = {"str"}

\* a call that returned v, and a call that raised exception e
Return(v) == [ok |-> TRUE, val |-> v]
Raise(e) == [ok |-> FALSE, exc |-> e]

Range(s) == {s[i] : i \in DOMAIN s}
Abs(n) == IF n < 0 THEN -n ELSE n

\* dict.get(key, default): the default only when the key is absent
Get(item, key, default) == IF key \in DOMAIN item THEN item[key] ELSE default

\* dict without one key, dict with one key set
Without(item, key) == [k \in (DOMAIN item) \ {key} |-> item[k]]
With(item, key, v) == [k \in (DOMAIN item) \cup {key} |-> IF k = key THEN v ELSE item[k]]

(***************************************************************************)
(* str.upper(), character by character.                                    *)
(***************************************************************************)
UpperChar(c) ==
    CASE c = "b" -> "B" [] c = "t" -> "T" [] c = "c" -> "C"
      [] c = "e" -> "E" [] c = "h" -> "H"
      [] c = "s" -> "S" [] c = "o" -> "O" [] c = "l" -> "L"
      [] OTHER -> c
Upper(s) == [i \in DOMAIN s |-> UpperChar(s[i])]

(***************************************************************************)
(* Records of the fetched batch (RawRecord).                               *)
(***************************************************************************)
required_fields == <<"id", "symbol", "current_price", "last_updated">>
OptionalFields == {"market_cap", "total_volume", "price_change_24h",
                   "price_change_percentage_24h"}

\* timestamp texts: the date-time body is one token
DateTimeBody == "2024-12-01T00:00:00"
TsZ == Str(<<DateTimeBody, "Z">>)
TsBad == Str(<<"yesterday">>)

Symbol(id) ==
    CASE id = "bitcoin" -> Str(<<"b", "t", "c">>)
      [] id = "ethereum" -> Str(<<"e", "t", "h">>)
      [] OTHER -> Str(<<"s", "o", "l">>)

\* a complete record as the API returns it
Coin(id, price, pct) ==
    [f \in Range(required_fields) \cup OptionalFields |->
        CASE f = "id" -> Str(<<id>>)
          [] f = "symbol" -> Symbol(id)
          [] f = "current_price" -> Num(price)
          [] f = "last_updated" -> TsZ
          [] f = "market_cap" -> Num(price * 1000)
          [] f = "total_volume" -> Num(price * 100000)
          [] f = "price_change_24h" -> Num(price * pct)
          [] OTHER -> Num(pct)]

GoodRecords ==
    { Coin("bitcoin", 2000, 6), Coin("ethereum", 1000, -6),
      Coin("solana", 1, 5), Coin("bitcoin", 2000, -5),
      Coin("ethereum", 999, 4), Coin("solana", 1, 0) }

BaseRecord == Coin("bitcoin", 2000, 6)

FaultyRecords ==
    { Without(BaseRecord, f) : f \in Range(required_fields) }
    \cup { With(BaseRecord, "current_price", v) : v \in {Null, Num(0), Num(-1)} }
    \cup { With(BaseRecord, "symbol", Null),
           With(BaseRecord, "last_updated", Null),
           With(BaseRecord, "last_updated", TsBad) }

SparseRecords ==
    { Without(BaseRecord, f) : f \in OptionalFields }
    \cup { With(BaseRecord, f, Null) : f \in OptionalFields }

RawRecords == GoodRecords \cup FaultyRecords \cup SparseRecords

SeqsUpTo(S, n) == UNION { [1..k -> S] : k \in 0..n }

\* the batches the pure functions are exercised on
CoreBatches ==
    { s \in SeqsUpTo(RawRecords, MaxLen) :
        Cardinality({ i \in DOMAIN s : s[i] \notin GoodRecords }) <= MaxIrregular }

(***************************************************************************)
(* validate_crypto_data                                                    *)
(***************************************************************************)
\* [field for field in required_fields if field not in item]
missing_fields(item) ==
    SelectSeq(required_fields, LAMBDA field : field \notin DOMAIN item)

PriceBelowZero(price) == price.num < 0
PriceLeZero(price) == price.num <= 0

\* item['current_price'] is None or item['current_price'] <= 0
InvalidPrice(item) ==
    IsNull(item["current_price"]) \/ PriceLeZero(item["current_price"])

RECURSIVE ValidateLoop(_, _)
ValidateLoop(data, i) ==
    IF i > Len(data) THEN TRUE
    ELSE IF missing_fields(data[i]) # <<>> THEN FALSE
    ELSE IF InvalidPrice(data[i]) THEN FALSE
    ELSE ValidateLoop(data, i + 1)

validate_crypto_data(data) ==
    IF data = <<>> THEN FALSE ELSE ValidateLoop(data, 1)

(***************************************************************************)
(* transform_crypto_data                                                   *)
(***************************************************************************)
\* str.replace('Z', '+00:00'): every occurrence
ReplaceZ(s) == [i \in DOMAIN s |-> IF s[i] = "Z" THEN "+00:00" ELSE s[i]]

\* datetime.fromisoformat
fromisoformat(s) ==
    IF s = <<DateTimeBody>> THEN Return([datetime |-> DateTimeBody, tz |-> "naive"])
    ELSE IF s = <<DateTimeBody, "+00:00">> THEN Return([datetime |-> DateTimeBody, tz |-> "UTC"])
    ELSE Raise("ValueError")

\* datetime.fromisoformat(item['last_updated'].replace('Z', '+00:00'))
ParseLastUpdated(item) ==
    IF "last_updated" \notin DOMAIN item THEN Raise("KeyError")
    ELSE IF ~IsStr(item["last_updated"]) THEN Raise("AttributeError")
    ELSE fromisoformat(ReplaceZ(item["last_updated"].str))

OptionalValue(item, key) == Get(item, key, Num(0))

\* the dict literal of the loop body; its entries are evaluated in order
TransformItem(item) ==
    IF {"id", "symbol", "current_price"} \ DOMAIN item # {} THEN Raise("KeyError")
    ELSE LET parsed == ParseLastUpdated(item) IN
         IF ~parsed.ok THEN parsed
         ELSE Return([id |-> item["id"],
                      symbol |-> item["symbol"],
                      current_price |-> item["current_price"],
                      market_cap |-> OptionalValue(item, "market_cap"),
                      total_volume |-> OptionalValue(item, "total_volume"),
                      price_change_24h |-> OptionalValue(item, "price_change_24h"),
                      price_change_percentage_24h |->
                          OptionalValue(item, "price_change_percentage_24h"),
                      last_updated |-> parsed.val])

\* the loop with the new record put in front of the list
RECURSIVE TransformLoopPrepend(_, _, _)
TransformLoopPrepend(data, i, transformed) ==
    IF i > Len(data) THEN Return(transformed)
    ELSE LET t == TransformItem(data[i]) IN
         IF ~t.ok THEN t
         ELSE TransformLoopPrepend(data, i + 1, <<t.val>> \o transformed)

RECURSIVE TransformLoop(_, _, _)
TransformLoop(data, i, transformed) ==
    IF i > Len(data) THEN Return(transformed)
    ELSE LET t == TransformItem(data[i]) IN
         IF ~t.ok THEN t
         ELSE TransformLoop(data, i + 1, Append(transformed, t.val))

transform_crypto_data(data) == TransformLoop(data, 1, <<>>)

(***************************************************************************)
(* analyze_for_alerts                                                      *)
(***************************************************************************)
QualifiesStrictly(change_pct, threshold) == Abs(change_pct.num) > threshold
Qualifies(change_pct, threshold) == Abs(change_pct.num) >= threshold

\* the indicator with its two values exchanged
DirectionExchanged(change_pct) == IF change_pct.num > 0 THEN "chart_down" ELSE "chart_up"

Direction(change_pct) == IF change_pct.num > 0 THEN "chart_up" ELSE "chart_down"

\* the dict appended to alerts
AlertEntry(item, change_pct) ==
    IF {"id", "symbol", "current_price"} \ DOMAIN item # {} THEN Raise("KeyError")
    ELSE IF ~IsStr(item["symbol"]) THEN Raise("AttributeError")
    ELSE Return([coin_id |-> item["id"],
                 symbol |-> Str(Upper(item["symbol"].str)),
                 price |-> item["current_price"],
                 change_pct |-> change_pct,
                 direction |-> Direction(change_pct)])

RECURSIVE AnalyzeLoop(_, _, _, _)
AnalyzeLoop(data, threshold, i, alerts) ==
    IF i > Len(data) THEN Return(alerts)
    ELSE LET change_pct == Get(data[i], "price_change_percentage_24h", Num(0)) IN
         IF ~IsNum(change_pct) THEN Raise("TypeError")
         ELSE IF Qualifies(change_pct, threshold)
         THEN LET e == AlertEntry(data[i], change_pct) IN
              IF ~e.ok THEN e
              ELSE AnalyzeLoop(data, threshold, i + 1, Append(alerts, e.val))
         ELSE AnalyzeLoop(data, threshold, i + 1, alerts)

SortKey(x) == Abs(x.change_pct.num)

\* x put in front of the elements with an equal key
InsertDescUnstable(sorted, x) ==
    LET k == Cardinality({i \in DOMAIN sorted : SortKey(sorted[i]) > SortKey(x)})
    IN SubSeq(sorted, 1, k) \o <<x>> \o SubSeq(sorted, k + 1, Len(sorted))

\* x goes behind every element whose key is not smaller: equal keys keep
\* the order in which they arrive
InsertDesc(sorted, x) ==
    LET k == Cardinality({i \in DOMAIN sorted : SortKey(sorted[i]) >= SortKey(x)})
    IN SubSeq(sorted, 1, k) \o <<x>> \o SubSeq(sorted, k + 1, Len(sorted))

RECURSIVE SortLoop(_, _, _)
SortLoop(alerts, i, sorted) ==
    IF i > Len(alerts) THEN sorted
    ELSE SortLoop(alerts, i + 1, InsertDesc(sorted, alerts[i]))

\* alerts.sort(key=lambda x: abs(x['change_pct']), reverse=True)
SortAlerts(alerts) == SortLoop(alerts, 1, <<>>)

\* the sort applied to the caller's list as well
RECURSIVE SortDataLoop(_, _, _)
SortDataLoop(data, i, sorted) ==
    IF i > Len(data) THEN sorted
    ELSE LET key(x) == Abs(x.price_change_percentage_24h.num)
             k == Cardinality({j \in DOMAIN sorted : key(sorted[j]) >= key(data[i])})
         IN SortDataLoop(data, i + 1,
                SubSeq(sorted, 1, k) \o <<data[i]>> \o SubSeq(sorted, k + 1, Len(sorted)))

analyze_in_place(data, threshold) ==
    LET found == AnalyzeLoop(data, threshold, 1, <<>>) IN
    IF ~found.ok THEN [ok |-> FALSE, exc |-> found.exc, data |-> data]
    ELSE IF found.val = <<>> THEN [ok |-> TRUE, val |-> Null, data |-> data]
    ELSE [ok |-> TRUE,
          val |-> [has_alert |-> TRUE,
                   alerts |-> SortAlerts(found.val),
                   threshold |-> threshold],
          data |-> SortDataLoop(data, 1, <<>>)]

\* no check for an empty list of alerts
analyze_without_none(data, threshold) ==
    LET found == AnalyzeLoop(data, threshold, 1, <<>>) IN
    IF ~found.ok THEN [ok |-> FALSE, exc |-> found.exc, data |-> data]
    ELSE [ok |-> TRUE,
          val |-> [has_alert |-> TRUE,
                   alerts |-> SortAlerts(found.val),
                   threshold |-> threshold],
          data |-> data]

\* the value returned (or the exception raised) and the content of the
\* caller's list when the call ends
analyze_for_alerts(data, threshold) ==
    LET found == AnalyzeLoop(data, threshold, 1, <<>>) IN
    IF ~found.ok THEN [ok |-> FALSE, exc |-> found.exc, data |-> data]
    ELSE IF found.val = <<>> THEN [ok |-> TRUE, val |-> Null, data |-> data]
    ELSE [ok |-> TRUE,
          val |-> [has_alert |-> TRUE,
                   alerts |-> SortAlerts(found.val),
                   threshold |-> threshold],
          data |-> data]

(***************************************************************************)
(* insert_crypto_data, on a store that is the set of rows of               *)
(* crypto_prices; (execution_date, coin_id) is the key of a row.           *)
(***************************************************************************)
\* the tuple with the symbol as the record gives it
RowOfAsGiven(item, execution_date) ==
    IF ~IsStr(item.symbol) THEN Raise("AttributeError")
    ELSE Return([execution_date |-> execution_date,
                 coin_id |-> item.id,
                 symbol |-> item.symbol,
                 current_price |-> item.current_price,
                 market_cap |-> item.market_cap,
                 total_volume |-> item.total_volume,
                 price_change_24h |-> item.price_change_24h,
                 price_change_percentage_24h |-> item.price_change_percentage_24h,
                 last_updated |-> item.last_updated])

\* one tuple of values
RowOf(item, execution_date) ==
    IF ~IsStr(item.symbol) THEN Raise("AttributeError")
    ELSE Return([execution_date |-> execution_date,
                 coin_id |-> item.id,
                 symbol |-> Str(Upper(item.symbol.str)),
                 current_price |-> item.current_price,
                 market_cap |-> item.market_cap,
                 total_volume |-> item.total_volume,
                 price_change_24h |-> item.price_change_24h,
                 price_change_percentage_24h |-> item.price_change_percentage_24h,
                 last_updated |-> item.last_updated])

\* the comprehension leaving out every item whose tuple cannot be built
RECURSIVE ValuesLoopSkipping(_, _, _, _)
ValuesLoopSkipping(data_list, execution_date, i, values) ==
    IF i > Len(data_list) THEN Return(values)
    ELSE LET r == RowOf(data_list[i], execution_date) IN
         IF ~r.ok THEN ValuesLoopSkipping(data_list, execution_date, i + 1, values)
         ELSE ValuesLoopSkipping(data_list, execution_date, i + 1, Append(values, r.val))

RECURSIVE ValuesLoop(_, _, _, _)
ValuesLoop(data_list, execution_date, i, values) ==
    IF i > Len(data_list) THEN Return(values)
    ELSE LET r == RowOf(data_list[i], execution_date) IN
         IF ~r.ok THEN r
         ELSE ValuesLoop(data_list, execution_date, i + 1, Append(values, r.val))

\* a conflict target without the run timestamp
SameKeyById(r, q) == r.coin_id = q.coin_id

SameKey(r, q) == r.execution_date = q.execution_date /\ r.coin_id = q.coin_id

\* a plain INSERT: the row is added whatever the store holds
InsertAlways(rows, v) == rows \cup {v}

\* INSERT ... ON CONFLICT (execution_date, coin_id) DO UPDATE SET ...:
\* a new key is inserted; on an old key the listed columns are overwritten
Upsert(rows, v) ==
    IF \E r \in rows : SameKey(r, v)
    THEN { IF SameKey(r, v)
           THEN [r EXCEPT !.current_price = v.current_price,
                          !.market_cap = v.market_cap,
                          !.total_volume = v.total_volume,
                          !.price_change_24h = v.price_change_24h,
                          !.price_change_percentage_24h = v.price_change_percentage_24h,
                          !.last_updated = v.last_updated]
           ELSE r : r \in rows }
    ELSE rows \cup {v}

RECURSIVE UpsertAll(_, _, _)
UpsertAll(rows, values, i) ==
    IF i > Len(values) THEN rows
    ELSE UpsertAll(Upsert(rows, values[i]), values, i + 1)

\* one statement may not touch a key twice
execute_values(rows, values) ==
    IF \E i, j \in DOMAIN values : i # j /\ SameKey(values[i], values[j])
    THEN Raise("CardinalityViolation")
    ELSE Return(UpsertAll(rows, values, 1))

\* the rows after the call (committed), or the exception (rolled back)
insert_crypto_data(rows, data_list, execution_date) ==
    IF data_list = <<>> THEN Return(rows)
    ELSE LET values == ValuesLoop(data_list, execution_date, 1, <<>>) IN
         IF ~values.ok THEN values
         ELSE execute_values(rows, values.val)

(***************************************************************************)
(* The read-only queries on crypto_prices: get_latest_prices of            *)
(* include/db_utils.py and CryptoDBClient of dashboard/utils/db_client.py. *)
(* A result is the sequence of its rows.                                   *)
(***************************************************************************)
\* the asset ids in the order ORDER BY coin_id gives
IdsByName == <<Str(<<"bitcoin">>), Str(<<"ethereum">>), Str(<<"solana">>)>>

RowsOfCoin(rows, id) == { r \in rows : r.coin_id = id }

IdPresent(rows, id) == RowsOfCoin(rows, id) # {}

\* ORDER BY coin_id, execution_date ASC: the first row of a coin
FirstByDateAsc(rows, id) ==
    CHOOSE r \in RowsOfCoin(rows, id) :
        \A q \in RowsOfCoin(rows, id) : q.execution_date >= r.execution_date

\* ORDER BY coin_id, execution_date DESC: the first row of a coin
FirstByDateDesc(rows, id) ==
    CHOOSE r \in RowsOfCoin(rows, id) :
        \A q \in RowsOfCoin(rows, id) : q.execution_date <= r.execution_date

\* SELECT DISTINCT ON (coin_id) ... ORDER BY coin_id, execution_date DESC
DistinctOnCoin(rows) ==
    LET ids == SelectSeq(IdsByName, LAMBDA id : IdPresent(rows, id)) IN
    [i \in DOMAIN ids |-> FirstByDateDesc(rows, ids[i])]

\* CryptoDBClient.get_latest_prices
client_get_latest_prices(rows) ==
    LET found == DistinctOnCoin(rows) IN
    [i \in DOMAIN found |->
        [coin_id |-> found[i].coin_id,
         symbol |-> found[i].symbol,
         current_price |-> found[i].current_price,
         market_cap |-> found[i].market_cap,
         total_volume |-> found[i].total_volume,
         price_change_24h |-> found[i].price_change_24h,
         price_change_percentage_24h |-> found[i].price_change_percentage_24h,
         last_updated |-> found[i].last_updated,
         execution_date |-> found[i].execution_date]]

\* db_utils.get_latest_prices; coin_ids is None ({}) or the ids asked for
get_latest_prices(rows, coin_ids) ==
    LET found == DistinctOnCoin(IF coin_ids = {} THEN rows
                                ELSE { r \in rows : r.coin_id \in coin_ids }) IN
    [i \in DOMAIN found |->
        [coin_id |-> found[i].coin_id,
         symbol |-> found[i].symbol,
         current_price |-> found[i].current_price,
         price_change_percentage_24h |-> found[i].price_change_percentage_24h,
         last_updated |-> found[i].last_updated]]

\* WHERE execution_date >= cutoff_time
\*   AND ABS(price_change_percentage_24h) >= threshold: a NULL percentage
\* compares to NULL and the row is left out
AlertHistoryRows(rows, cutoff_time, threshold) ==
    { r \in rows :
        /\ r.execution_date >= cutoff_time
        /\ IsNum(r.price_change_percentage_24h)
        /\ Abs(r.price_change_percentage_24h.num) >= threshold }

\* ORDER BY execution_date DESC, ABS(price_change_percentage_24h) DESC
AlertHistoryOrdered(s) ==
    \A i, j \in DOMAIN s :
        i < j =>
            \/ s[i].execution_date > s[j].execution_date
            \/ /\ s[i].execution_date = s[j].execution_date
               /\ Abs(s[i].price_change_percentage_24h.num)
                     >= Abs(s[j].price_change_percentage_24h.num)

\* CryptoDBClient.get_alert_history called at utcnow: the frames the query
\* may return (rows that tie in the ordering come in any order)
get_alert_history(rows, utcnow, hours) ==
    LET cutoff_time == utcnow - hours
        threshold == 5
        found == AlertHistoryRows(rows, cutoff_time, threshold)
    IN  { [i \in DOMAIN s |->
              [execution_date |-> s[i].execution_date,
               coin_id |-> s[i].coin_id,
               symbol |-> s[i].symbol,
               current_price |-> s[i].current_price,
               price_change_24h |-> s[i].price_change_24h,
               price_change_percentage_24h |-> s[i].price_change_percentage_24h]] :
          s \in { t \in [1..Cardinality(found) -> found] :
                    Range(t) = found /\ AlertHistoryOrdered(t) } }

(***************************************************************************)
(* Number formatting.  A float to be formatted is the decimal m / 10^k     *)
(* (Dec(m, k)); a number of the pipeline is the whole number Dec(n, 0).    *)
(* FormatFixed is the format specification [+][,].<d>f: sign, integer      *)
(* digits (grouped by thousands under ","), ".", d fraction digits, the    *)
(* value rounded to d places, half to even.                                *)
(***************************************************************************)
Dec(m, k) == [m |-> m, k |-> k]
FromNum(v) == Dec(v.num, 0)

RECURSIVE Pow10(_)
Pow10(n) == IF n = 0 THEN 1 ELSE 10 * Pow10(n - 1)

Floor(x) == x.m \div Pow10(x.k)
IsWhole(x) == x.m % Pow10(x.k) = 0
\* x >= n, x > n, x < n for a whole number n
Ge(x, n) == Floor(x) >= n
Gt(x, n) == Floor(x) > n \/ (Floor(x) = n /\ ~IsWhole(x))
Lt(x, n) == ~Ge(x, n)

DigitChars == <<"0", "1", "2", "3", "4", "5", "6", "7", "8", "9">>

RECURSIVE Digits(_)
Digits(n) ==
    IF n < 10 THEN <<DigitChars[n + 1]>>
    ELSE Digits(n \div 10) \o <<DigitChars[(n % 10) + 1]>>

ZeroPad(digs, width) ==
    [i \in 1..width |-> IF i <= width - Len(digs) THEN "0"
                        ELSE digs[i - (width - Len(digs))]]

RECURSIVE GroupThousands(_)
GroupThousands(digs) ==
    IF Len(digs) <= 3 THEN digs
    ELSE GroupThousands(SubSeq(digs, 1, Len(digs) - 3)) \o <<",">>
         \o SubSeq(digs, Len(digs) - 2, Len(digs))

RoundHalfEven(a, b) ==
    LET q == a \div b
        r == a % b
    IN  IF 2 * r > b \/ (2 * r = b /\ q % 2 = 1) THEN q + 1 ELSE q

\* |x| rounded to d places: its whole part and its d fraction digits
Parts(x, d) ==
    IF x.k <= d
    THEN [whole |-> Abs(x.m) \div Pow10(x.k),
          fraction |-> (Abs(x.m) % Pow10(x.k)) * Pow10(d - x.k)]
    ELSE LET q == RoundHalfEven(Abs(x.m), Pow10(x.k - d)) IN
         [whole |-> q \div Pow10(d), fraction |-> q % Pow10(d)]

FormatFixed(x, d, plus, comma) ==
    LET p == Parts(x, d)
        whole == Digits(p.whole)
        sign == IF x.m < 0 THEN <<"-">> ELSE IF plus THEN <<"+">> ELSE <<>>
    IN  sign \o (IF comma THEN GroupThousands(whole) ELSE whole)
        \o <<".">> \o ZeroPad(Digits(p.fraction), d)

\* str() of a float that is a whole number
FloatStr(n) == (IF n < 0 THEN <<"-">> ELSE <<>>) \o Digits(Abs(n)) \o <<".", "0">>

(***************************************************************************)
(* The messages of notification_utils.py.  A message is its template's     *)
(* holes, each filled with the text the code renders into it.              *)
(***************************************************************************)
\* format_crypto_summary: price >= 1000: f"${price:,.2f}", else f"${price:.4f}"
summary_price_str(price) ==
    IF Ge(price, 1000) THEN <<"$">> \o FormatFixed(price, 2, FALSE, TRUE)
    ELSE <<"$">> \o FormatFixed(price, 4, FALSE, FALSE)

summary_trend_emoji(change_pct) ==
    IF Gt(change_pct, 0) THEN "chart_up"
    ELSE IF Lt(change_pct, 0) THEN "chart_down"
    ELSE "arrow_right"

summary_change_text(change_pct) ==
    IF Gt(change_pct, 0) THEN <<"+">> \o FormatFixed(change_pct, 2, FALSE, FALSE) \o <<"%">>
    ELSE IF Lt(change_pct, 0) THEN FormatFixed(change_pct, 2, FALSE, FALSE) \o <<"%">>
    ELSE <<"0", ".", "0", "0", "%">>

SummaryLine(item) ==
    LET change_pct == Get(item, "price_change_percentage_24h", Num(0)) IN
    IF ~IsStr(item.symbol) THEN Raise("AttributeError")
    ELSE IF ~IsNum(change_pct) \/ ~IsNum(item.current_price) THEN Raise("TypeError")
    ELSE Return([trend_emoji |-> summary_trend_emoji(FromNum(change_pct)),
                 symbol |-> Str(Upper(item.symbol.str)),
                 price_str |-> summary_price_str(FromNum(item.current_price)),
                 change_text |-> summary_change_text(FromNum(change_pct))])

RECURSIVE SummaryLoop(_, _, _)
SummaryLoop(data, i, lines) ==
    IF i > Len(data) THEN Return(lines)
    ELSE LET l == SummaryLine(data[i]) IN
         IF ~l.ok THEN l
         ELSE SummaryLoop(data, i + 1, Append(lines, l.val))

\* the sum over every second item
RECURSIVE SumVolumeAlternate(_, _, _)
SumVolumeAlternate(data, i, total) ==
    IF i > Len(data) THEN Return(total)
    ELSE LET v == Get(data[i], "total_volume", Num(0)) IN
         IF ~IsNum(v) THEN Raise("TypeError")
         ELSE SumVolumeAlternate(data, i + 2, total + v.num)

\* sum(item.get('total_volume', 0) for item in data)
RECURSIVE SumVolume(_, _, _)
SumVolume(data, i, total) ==
    IF i > Len(data) THEN Return(total)
    ELSE LET v == Get(data[i], "total_volume", Num(0)) IN
         IF ~IsNum(v) THEN Raise("TypeError")
         ELSE SumVolume(data, i + 1, total + v.num)

\* f"${total_volume / 1e9:.2f}B"
volume_text(total_volume) ==
    <<"$">> \o FormatFixed(Dec(total_volume, 9), 2, FALSE, FALSE) \o <<"B">>

format_crypto_summary(data, execution_date) ==
    LET lines == SummaryLoop(data, 1, <<>>) IN
    IF ~lines.ok THEN lines
    ELSE LET total_volume == SumVolume(data, 1, 0) IN
         IF ~total_volume.ok THEN total_volume
         ELSE Return([title |-> "Crypto Price Update",
                      timestamp |-> execution_date,
                      lines |-> lines.val,
                      total_volume |-> volume_text(total_volume.val)])

\* the rule with the boundary in the lower tier
alert_price_str_above(price) ==
    IF Gt(price, 1000) THEN <<"$">> \o FormatFixed(price, 2, FALSE, TRUE)
    ELSE <<"$">> \o FormatFixed(price, 4, FALSE, FALSE)

\* format_alert_message: price >= 1000: f"${price:,.2f}", else f"${price:.4f}"
alert_price_str(price) ==
    IF Ge(price, 1000) THEN <<"$">> \o FormatFixed(price, 2, FALSE, TRUE)
    ELSE <<"$">> \o FormatFixed(price, 4, FALSE, FALSE)

\* f"{change_pct:.2f}%", without the "+" flag
alert_change_text_unflagged(change_pct) ==
    FormatFixed(change_pct, 2, FALSE, FALSE) \o <<"%">>

\* f"{change_pct:+.2f}%"
alert_change_text(change_pct) == FormatFixed(change_pct, 2, TRUE, FALSE) \o <<"%">>

AlertBlock(alert) ==
    IF ~IsNum(alert.price) \/ ~IsNum(alert.change_pct) THEN Raise("TypeError")
    ELSE Return([direction |-> alert.direction,
                 symbol |-> alert.symbol,
                 price_str |-> alert_price_str(FromNum(alert.price)),
                 change |-> alert_change_text(FromNum(alert.change_pct))])

\* the loop with each block put in front of the message body
RECURSIVE AlertLoopPrepend(_, _, _)
AlertLoopPrepend(alerts, i, blocks) ==
    IF i > Len(alerts) THEN Return(blocks)
    ELSE LET b == AlertBlock(alerts[i]) IN
         IF ~b.ok THEN b
         ELSE AlertLoopPrepend(alerts, i + 1, <<b.val>> \o blocks)

RECURSIVE AlertLoop(_, _, _)
AlertLoop(alerts, i, blocks) ==
    IF i > Len(alerts) THEN Return(blocks)
    ELSE LET b == AlertBlock(alerts[i]) IN
         IF ~b.ok THEN b
         ELSE AlertLoop(alerts, i + 1, Append(blocks, b.val))

format_alert_message(alert_data, execution_date) ==
    IF alert_data = Null THEN Raise("TypeError")
    ELSE LET blocks == AlertLoop(alert_data.alerts, 1, <<>>) IN
         IF ~blocks.ok THEN blocks
         ELSE Return([title |-> "CRYPTO ALERT!",
                      timestamp |-> execution_date,
                      threshold |-> FloatStr(alert_data.threshold),
                      blocks |-> blocks.val])

(***************************************************************************)
(* The task graph of crypto_price_pipeline and the scheduler's rules.      *)
(***************************************************************************)
Tasks ==
    {"setup_database", "extract_crypto_data", "validate_data", "transform_data",
     "load_to_database", "analyze_for_alerts", "check_alert_condition",
     "send_alert_notification", "send_summary_notification", "pipeline_complete"}

\* the graph without the edge loaded >> analyzed
UpstreamByArguments(t) ==
    CASE t = "setup_database" -> {}
      [] t = "extract_crypto_data" -> {"setup_database"}
      [] t = "validate_data" -> {"extract_crypto_data"}
      [] t = "transform_data" -> {"validate_data"}
      [] t = "load_to_database" -> {"transform_data"}
      [] t = "analyze_for_alerts" -> {"transform_data"}
      [] t = "check_alert_condition" -> {"analyze_for_alerts"}
      [] t = "send_alert_notification" -> {"analyze_for_alerts", "check_alert_condition"}
      [] t = "send_summary_notification" -> {"analyze_for_alerts", "check_alert_condition"}
      [] OTHER -> {"send_alert_notification", "send_summary_notification"}

\* the tasks t waits for: the tasks whose result it takes, and the >> chain
Upstream(t) ==
    CASE t = "setup_database" -> {}
      [] t = "extract_crypto_data" -> {"setup_database"}
      [] t = "validate_data" -> {"extract_crypto_data"}
      [] t = "transform_data" -> {"validate_data"}
      [] t = "load_to_database" -> {"transform_data"}
      [] t = "analyze_for_alerts" -> {"transform_data", "load_to_database"}
      [] t = "check_alert_condition" -> {"analyze_for_alerts"}
      [] t = "send_alert_notification" -> {"analyze_for_alerts", "check_alert_condition"}
      [] t = "send_summary_notification" -> {"analyze_for_alerts", "check_alert_condition"}
      [] OTHER -> {"send_alert_notification", "send_summary_notification"}

Downstream(t) == { d \in Tasks : t \in Upstream(d) }

\* default_args['retries'], and the tasks that set their own
DefaultRetries == 3
\* validate_data left with the default
RetriesWithoutOverride(t) ==
    CASE t = "setup_database" -> 1
      [] t = "extract_crypto_data" -> 3
      [] OTHER -> DefaultRetries

Retries(t) ==
    CASE t = "setup_database" -> 1
      [] t = "extract_crypto_data" -> 3
      [] t = "validate_data" -> 0
      [] OTHER -> DefaultRetries

\* every task under the default rule
trigger_rule_default(t) == "all_success"

trigger_rule(t) ==
    IF t = "pipeline_complete" THEN "none_failed_min_one_success" ELSE "all_success"

ALERT_THRESHOLD == 5

\* hours since start_date: the run modelled, and the run before it
logical_date == 4
EarlierRun == 0

Finished == {"success", "failed", "upstream_failed", "skipped"}
Failed == {"failed", "upstream_failed"}

(***************************************************************************)
(* State.                                                                  *)
(*   raw, is_valid, transformed_data, batch, alert_threshold, analysis:    *)
(*   a caller of the pure functions and what each call gave it (SpecCore); *)
(*   composed: what the composer chosen by the latest analysis returned.   *)
(*   One pipeline run (Spec):                                              *)
(*   state, tries: the state and the number of attempts of each task;      *)
(*   fetched: what the latest call of fetch_crypto_prices gave;            *)
(*   xcom: the value each task returned; store: the rows of crypto_prices; *)
(*   credentials: whether the Telegram token and chat id are set;          *)
(*   delivered: the messages Telegram accepted.                            *)
(*   A client of the store (SpecStore):                                    *)
(*   calls: the number of calls of insert_crypto_data so far;              *)
(*   last_call: the arguments of the latest call and whether it committed. *)
(*   A caller of the formatters (SpecFormat):                              *)
(*   number: the float it formats; shown: what each formatter returned.    *)
(***************************************************************************)
VARIABLES raw, is_valid, transformed_data, batch, alert_threshold, analysis, composed
VARIABLES state, tries, fetched, xcom, store, credentials, delivered
VARIABLES calls, last_call
VARIABLES number, shown

coreVars == <<raw, is_valid, transformed_data, batch, alert_threshold, analysis, composed>>
runVars == <<state, tries, fetched, xcom, store, credentials, delivered>>
storeVars == <<calls, last_call>>
formatVars == <<number, shown>>
vars == <<coreVars, runVars, storeVars, formatVars>>

\* thresholds a caller passes
Thresholds == {0, 5, 6}
\* calls of analyze_for_alerts on one batch
MaxCalls == 2

CoreIdle ==
    /\ raw = <<>>
    /\ is_valid = <<>>
    /\ transformed_data = <<>>
    /\ batch = <<>>
    /\ alert_threshold = 0
    /\ analysis = <<>>
    /\ composed = <<>>

StoreIdle ==
    /\ calls = 0
    /\ last_call = <<>>

FormatIdle ==
    /\ number = <<>>
    /\ shown = <<>>

\* no task has run
RunIdle ==
    /\ state = [t \in Tasks |-> "none"]
    /\ tries = [t \in Tasks |-> 0]
    /\ fetched = <<>>
    /\ xcom = [t \in Tasks |-> <<>>]
    /\ store = {}
    /\ credentials = TRUE
    /\ delivered = <<>>

(***************************************************************************)
(* SpecCore: the pure functions called on a bounded batch.                 *)
(***************************************************************************)
CoreInit ==
    /\ raw \in CoreBatches
    /\ is_valid = <<>>
    /\ transformed_data = <<>>
    /\ batch = <<>>
    /\ alert_threshold = 0
    /\ analysis = <<>>
    /\ composed = <<>>
    /\ RunIdle
    /\ StoreIdle
    /\ FormatIdle

\* is_valid = validate_crypto_data(raw)
Validate ==
    /\ is_valid = <<>>
    /\ is_valid' = <<validate_crypto_data(raw)>>
    /\ UNCHANGED <<raw, transformed_data, batch, alert_threshold, analysis, composed>>
    /\ UNCHANGED <<runVars, storeVars, formatVars>>

\* transformed_data = transform_crypto_data(raw)
Transform ==
    /\ is_valid # <<>>
    /\ transformed_data = <<>>
    /\ LET r == transform_crypto_data(raw) IN
       /\ transformed_data' = <<r>>
       /\ batch' = IF r.ok THEN r.val ELSE <<>>
    /\ UNCHANGED <<raw, is_valid, alert_threshold, analysis, composed>>
    /\ UNCHANGED <<runVars, storeVars, formatVars>>

\* analyze_for_alerts(batch, th), on the list transform returned
Analyze(th) ==
    /\ transformed_data # <<>>
    /\ transformed_data[1].ok
    /\ Len(analysis) < MaxCalls
    /\ analysis # <<>> => th = alert_threshold
    /\ composed = <<>>
    /\ LET r == analyze_for_alerts(batch, th) IN
       /\ analysis' = Append(analysis, IF r.ok THEN Return(r.val) ELSE Raise(r.exc))
       /\ batch' = r.data
    /\ alert_threshold' = th
    /\ UNCHANGED <<raw, is_valid, transformed_data, composed>>
    /\ UNCHANGED <<runVars, storeVars, formatVars>>

\* the composer the analysis selects, as the two notification tasks call it
\* after the one analysis of a run: format_alert_message on a report,
\* format_crypto_summary on the batch otherwise
Compose ==
    /\ Len(analysis) = 1
    /\ analysis[Len(analysis)].ok
    /\ composed = <<>>
    /\ composed' = <<IF analysis[Len(analysis)].val # Null
                    THEN format_alert_message(analysis[Len(analysis)].val, logical_date)
                    ELSE format_crypto_summary(batch, logical_date)>>
    /\ UNCHANGED <<raw, is_valid, transformed_data, batch, alert_threshold, analysis>>
    /\ UNCHANGED <<runVars, storeVars, formatVars>>

CoreNext ==
    \/ Validate
    \/ Transform
    \/ \E th \in Thresholds : Analyze(th)
    \/ Compose

SpecCore == CoreInit /\ [][CoreNext]_vars

(***************************************************************************)
(* Spec: one run of crypto_price_pipeline.                                 *)
(***************************************************************************)
\* the records a fetch may return in the run
FetchRecords ==
    { Coin("bitcoin", 2000, 6), Coin("ethereum", 999, 4),
      Without(BaseRecord, "id"),
      With(BaseRecord, "current_price", Num(0)),
      With(BaseRecord, "last_updated", TsBad),
      With(BaseRecord, "symbol", Null),
      With(Coin("ethereum", 999, 4), "total_volume", Null),
      With(Coin("ethereum", 999, 4), "price_change_percentage_24h", Null) }

\* fetch_crypto_prices: the parsed response, or the request's exception
FetchOutcomes ==
    {Raise("RequestException")}
    \cup { Return(b) : b \in SeqsUpTo(FetchRecords, MaxFetchLen) }

\* a row the run before left in the store
EarlierRow ==
    RowOf(TransformItem(Coin("bitcoin", 2000, 6)).val, EarlierRun).val

Init ==
    /\ CoreIdle
    /\ StoreIdle
    /\ FormatIdle
    /\ state = [t \in Tasks |-> "none"]
    /\ tries = [t \in Tasks |-> 0]
    /\ fetched = <<>>
    /\ xcom = [t \in Tasks |-> <<>>]
    /\ store \in {{}, {EarlierRow}}
    /\ credentials \in BOOLEAN
    /\ delivered = <<>>

\* what the trigger rule of t says, given the states of its upstream tasks
RuleVerdict(t) ==
    LET up == { state[u] : u \in Upstream(t) } IN
    IF trigger_rule(t) = "all_success"
    THEN IF up \cap Failed # {} THEN "upstream_failed"
         ELSE IF "skipped" \in up THEN "skipped"
         ELSE IF up \subseteq {"success"} THEN "run"
         ELSE "wait"
    ELSE IF up \cap Failed # {} THEN "upstream_failed"
         ELSE IF ~(up \subseteq Finished) THEN "wait"
         ELSE IF "success" \in up THEN "run"
         ELSE "skipped"

Runnable(t) == state[t] \in {"none", "up_for_retry"} /\ RuleVerdict(t) = "run"

\* one retry more than the task's retries
StateAfterFailureOneMore(t) == IF tries[t] <= Retries(t) THEN "up_for_retry" ELSE "failed"

\* the state of t after an attempt that raised
StateAfterFailure(t) == IF tries[t] < Retries(t) THEN "up_for_retry" ELSE "failed"

\* an attempt of t that returned v
Succeed(t, v) ==
    /\ state' = [state EXCEPT ![t] = "success"]
    /\ tries' = [tries EXCEPT ![t] = @ + 1]
    /\ xcom' = [xcom EXCEPT ![t] = <<v>>]

\* an attempt of t that raised
Fail(t) ==
    /\ state' = [state EXCEPT ![t] = StateAfterFailure(t)]
    /\ tries' = [tries EXCEPT ![t] = @ + 1]
    /\ xcom' = xcom

\* the scheduler gives a task that will not run its final state
Propagate(t) ==
    /\ state[t] = "none"
    /\ RuleVerdict(t) \in {"upstream_failed", "skipped"}
    /\ state' = [state EXCEPT ![t] = RuleVerdict(t)]
    /\ UNCHANGED <<tries, fetched, xcom, store, credentials, delivered>>
    /\ UNCHANGED <<coreVars, storeVars, formatVars>>

\* setup_database_task: create_table() against the database
SetupDatabase ==
    /\ Runnable("setup_database")
    /\ \E db_ok \in BOOLEAN :
          IF db_ok THEN Succeed("setup_database", "Database ready")
          ELSE Fail("setup_database")
    /\ UNCHANGED <<fetched, store, credentials, delivered>>
    /\ UNCHANGED <<coreVars, storeVars, formatVars>>

\* extract_data_task
ExtractData ==
    /\ Runnable("extract_crypto_data")
    /\ \E data \in FetchOutcomes :
          /\ fetched' = <<data>>
          /\ IF ~data.ok THEN Fail("extract_crypto_data")
             ELSE IF data.val = <<>> THEN Fail("extract_crypto_data")
             ELSE Succeed("extract_crypto_data", data.val)
    /\ UNCHANGED <<store, credentials, delivered>>
    /\ UNCHANGED <<coreVars, storeVars, formatVars>>

\* the task without its raise
ValidateDataPassThrough ==
    /\ Runnable("validate_data")
    /\ Succeed("validate_data", xcom["extract_crypto_data"][1])
    /\ UNCHANGED <<fetched, store, credentials, delivered>>
    /\ UNCHANGED <<coreVars, storeVars, formatVars>>

\* validate_data_task
ValidateData ==
    /\ Runnable("validate_data")
    /\ LET crypto_data == xcom["extract_crypto_data"][1] IN
       IF ~validate_crypto_data(crypto_data) THEN Fail("validate_data")
       ELSE Succeed("validate_data", crypto_data)
    /\ UNCHANGED <<fetched, store, credentials, delivered>>
    /\ UNCHANGED <<coreVars, storeVars, formatVars>>

\* transform_data_task
TransformData ==
    /\ Runnable("transform_data")
    /\ LET r == transform_crypto_data(xcom["validate_data"][1]) IN
       IF ~r.ok THEN Fail("transform_data")
       ELSE Succeed("transform_data", r.val)
    /\ UNCHANGED <<fetched, store, credentials, delivered>>
    /\ UNCHANGED <<coreVars, storeVars, formatVars>>

\* load_data_task: the insert commits, or the database refuses and the
\* transaction is rolled back
LoadData ==
    /\ Runnable("load_to_database")
    /\ \E db_ok \in BOOLEAN :
          LET r == insert_crypto_data(store, xcom["transform_data"][1], logical_date) IN
          IF db_ok /\ r.ok
          THEN /\ store' = r.val
               /\ Succeed("load_to_database", "Loaded")
          ELSE /\ store' = store
               /\ Fail("load_to_database")
    /\ UNCHANGED <<fetched, credentials, delivered>>
    /\ UNCHANGED <<coreVars, storeVars, formatVars>>

\* analyze_task
AnalyzeData ==
    /\ Runnable("analyze_for_alerts")
    /\ LET alert_info == analyze_for_alerts(xcom["transform_data"][1], ALERT_THRESHOLD) IN
       IF ~alert_info.ok THEN Fail("analyze_for_alerts")
       ELSE Succeed("analyze_for_alerts",
                    [has_alert |-> alert_info.val # Null,
                     alert_data |-> alert_info.val,
                     summary_data |-> alert_info.data])
    /\ UNCHANGED <<fetched, store, credentials, delivered>>
    /\ UNCHANGED <<coreVars, storeVars, formatVars>>

\* the branch with its two task ids exchanged
BranchChoiceExchanged(analysis_result) ==
    IF analysis_result.has_alert THEN "send_summary_notification"
    ELSE "send_alert_notification"

\* the task id branch_on_alert returns
BranchChoice(analysis_result) ==
    IF analysis_result.has_alert THEN "send_alert_notification"
    ELSE "send_summary_notification"

\* branch_on_alert; the tasks behind the branch that it did not choose are
\* skipped
BranchOnAlert ==
    /\ Runnable("check_alert_condition")
    /\ LET chosen == BranchChoice(xcom["analyze_for_alerts"][1]) IN
       /\ state' = [t \in Tasks |->
                       IF t = "check_alert_condition" THEN "success"
                       ELSE IF t \in Downstream("check_alert_condition") \ {chosen}
                       THEN "skipped"
                       ELSE state[t]]
       /\ tries' = [tries EXCEPT !["check_alert_condition"] = @ + 1]
       /\ xcom' = [xcom EXCEPT !["check_alert_condition"] = <<chosen>>]
    /\ UNCHANGED <<fetched, store, credentials, delivered>>
    /\ UNCHANGED <<coreVars, storeVars, formatVars>>

\* send_telegram_message: what the call returns and whether Telegram took
\* the message (a request may time out on the response of a post that was
\* accepted)
SendOutcomes ==
    IF ~credentials THEN {[success |-> FALSE, accepted |-> FALSE]}
    ELSE {[success |-> TRUE, accepted |-> TRUE],
          [success |-> FALSE, accepted |-> FALSE],
          [success |-> FALSE, accepted |-> TRUE]}

\* the body of both notification tasks, from the formatted message on
Notify(t, message) ==
    IF ~message.ok
    THEN /\ Fail(t)
         /\ delivered' = delivered
    ELSE \E o \in SendOutcomes :
            /\ delivered' = IF o.accepted THEN Append(delivered, message.val) ELSE delivered
            /\ IF o.success THEN Succeed(t, "sent") ELSE Fail(t)

\* send_alert_task
SendAlert ==
    /\ Runnable("send_alert_notification")
    /\ Notify("send_alert_notification",
              format_alert_message(xcom["analyze_for_alerts"][1].alert_data, logical_date))
    /\ UNCHANGED <<fetched, store, credentials>>
    /\ UNCHANGED <<coreVars, storeVars, formatVars>>

\* send_summary_task
SendSummary ==
    /\ Runnable("send_summary_notification")
    /\ Notify("send_summary_notification",
              format_crypto_summary(xcom["analyze_for_alerts"][1].summary_data, logical_date))
    /\ UNCHANGED <<fetched, store, credentials>>
    /\ UNCHANGED <<coreVars, storeVars, formatVars>>

\* end_task, an EmptyOperator
PipelineComplete ==
    /\ Runnable("pipeline_complete")
    /\ Succeed("pipeline_complete", "done")
    /\ UNCHANGED <<fetched, store, credentials, delivered>>
    /\ UNCHANGED <<coreVars, storeVars, formatVars>>

Next ==
    \/ SetupDatabase
    \/ ExtractData
    \/ ValidateData
    \/ TransformData
    \/ LoadData
    \/ AnalyzeData
    \/ BranchOnAlert
    \/ SendAlert
    \/ SendSummary
    \/ PipelineComplete
    \/ \E t \in Tasks : Propagate(t)

Spec == Init /\ [][Next]_vars

\* the run has ended, and how: the state of its one leaf task decides
RunEnded == \A t \in Tasks : state[t] \in Finished
RunFailed == RunEnded /\ state["pipeline_complete"] \in Failed

(***************************************************************************)
(* SpecStore: a client calling insert_crypto_data again and again, as the  *)
(* load task of successive, re-run and backfilled runs does.               *)
(***************************************************************************)
\* calls of insert_crypto_data
MaxLoads == 3

\* normalised records: bitcoin, bitcoin refreshed, ethereum
LoadRecords ==
    { TransformItem(c).val :
        c \in {Coin("bitcoin", 2000, 6),
               With(Coin("bitcoin", 2100, -5), "last_updated", Str(<<DateTimeBody>>)),
               Coin("ethereum", 999, 4)} }

LoadBatches == SeqsUpTo(LoadRecords, MaxFetchLen)

RunDates == {EarlierRun, logical_date}

StoreInit ==
    /\ CoreIdle
    /\ RunIdle
    /\ StoreIdle
    /\ FormatIdle

\* one call: the statement commits, or it raises (the connection is lost,
\* the database refuses it) and get_db_connection rolls back
InsertData ==
    /\ calls < MaxLoads
    /\ \E data_list \in LoadBatches, execution_date \in RunDates, db_ok \in BOOLEAN :
          LET r == insert_crypto_data(store, data_list, execution_date) IN
          /\ store' = IF db_ok /\ r.ok THEN r.val ELSE store
          /\ last_call' = <<[data_list |-> data_list,
                             execution_date |-> execution_date,
                             ok |-> db_ok /\ r.ok,
                             rows_before |-> store]>>
    /\ calls' = calls + 1
    /\ UNCHANGED <<state, tries, fetched, xcom, credentials, delivered>>
    /\ UNCHANGED <<coreVars, formatVars>>

StoreNext == InsertData

SpecStore == StoreInit /\ [][StoreNext]_vars

(***************************************************************************)
(* dashboard/utils/formatters.py                                           *)
(***************************************************************************)
\* the rule with the boundary 1 in the lowest tier
format_price_above_one(price) ==
    IF Ge(price, 1000) THEN <<"$">> \o FormatFixed(price, 2, FALSE, TRUE)
    ELSE IF Gt(price, 1) THEN <<"$">> \o FormatFixed(price, 4, FALSE, FALSE)
    ELSE <<"$">> \o FormatFixed(price, 8, FALSE, FALSE)

format_price(price) ==
    IF Ge(price, 1000) THEN <<"$">> \o FormatFixed(price, 2, FALSE, TRUE)
    ELSE IF Ge(price, 1) THEN <<"$">> \o FormatFixed(price, 4, FALSE, FALSE)
    ELSE <<"$">> \o FormatFixed(price, 8, FALSE, FALSE)

\* the sign prepended from 0 on
format_percentage_from_zero(pct, include_sign) ==
    IF include_sign
    THEN IF Ge(pct, 0) THEN <<"+">> \o FormatFixed(pct, 2, FALSE, FALSE) \o <<"%">>
         ELSE FormatFixed(pct, 2, FALSE, FALSE) \o <<"%">>
    ELSE FormatFixed(pct, 2, FALSE, FALSE) \o <<"%">>

format_percentage(pct, include_sign) ==
    IF include_sign
    THEN IF Gt(pct, 0) THEN <<"+">> \o FormatFixed(pct, 2, FALSE, FALSE) \o <<"%">>
         ELSE FormatFixed(pct, 2, FALSE, FALSE) \o <<"%">>
    ELSE FormatFixed(pct, 2, FALSE, FALSE) \o <<"%">>

\* the classes with +5 in the strong one
get_trend_emoji_from_five(change_pct) ==
    IF Ge(change_pct, 5) THEN "rocket"
    ELSE IF Gt(change_pct, 0) THEN "chart_up"
    ELSE IF Lt(change_pct, -5) THEN "collision"
    ELSE IF Lt(change_pct, 0) THEN "chart_down"
    ELSE "arrow_right"

get_trend_emoji(change_pct) ==
    IF Gt(change_pct, 5) THEN "rocket"
    ELSE IF Gt(change_pct, 0) THEN "chart_up"
    ELSE IF Lt(change_pct, -5) THEN "collision"
    ELSE IF Lt(change_pct, 0) THEN "chart_down"
    ELSE "arrow_right"

(***************************************************************************)
(* SpecFormat: the formatters of the dashboard and the per-record          *)
(* renderings of the two notification composers, each called on one float. *)
(***************************************************************************)
\* decimal places of the floats formatted
MaxScale == 3

\* numerators: around the tier boundaries of every formatter.  A decimal
\* that lies half-way between two 2-place values is among them only where
\* the float is that decimal exactly (0.125, 0.375).
Numerators ==
    {-5001, -5000, -4999, -32, -1, 0, 1, 4, 32, 125, 375, 999, 1000, 1001,
     4999, 5000, 5001, 12346, 999999, 1000000, 1000001, 12345678}

\* 42.1234567, 999.99999, 0.5
FormatInputs ==
    { Dec(m, k) : m \in Numerators, k \in 0..MaxScale }
    \cup {Dec(421234567, 7), Dec(99999999, 5), Dec(5, 1)}

Formatters ==
    {"format_price", "format_percentage", "format_percentage_unsigned",
     "get_trend_emoji", "summary_price_str", "summary_change_text",
     "alert_price_str", "alert_change_text"}

FormatInit ==
    /\ CoreIdle
    /\ RunIdle
    /\ StoreIdle
    /\ number \in FormatInputs
    /\ shown = [f \in Formatters |-> <<>>]

\* the caller keeps what formatter f returned
Show(f, text) ==
    /\ shown[f] = <<>>
    /\ shown' = [shown EXCEPT ![f] = <<text>>]
    /\ UNCHANGED number
    /\ UNCHANGED <<coreVars, runVars, storeVars>>

FormatPrice == Show("format_price", format_price(number))
FormatPercentage == Show("format_percentage", format_percentage(number, TRUE))
FormatPercentageUnsigned ==
    Show("format_percentage_unsigned", format_percentage(number, FALSE))
GetTrendEmoji == Show("get_trend_emoji", get_trend_emoji(number))
SummaryPrice == Show("summary_price_str", summary_price_str(number))
SummaryChange == Show("summary_change_text", summary_change_text(number))
AlertPrice == Show("alert_price_str", alert_price_str(number))
AlertChange == Show("alert_change_text", alert_change_text(number))

FormatNext ==
    \/ FormatPrice
    \/ FormatPercentage
    \/ FormatPercentageUnsigned
    \/ GetTrendEmoji
    \/ SummaryPrice
    \/ SummaryChange
    \/ AlertPrice
    \/ AlertChange

SpecFormat == FormatInit /\ [][FormatNext]_vars

(***************************************************************************)
(* Claims about the pure functions, checked under SpecCore.                *)
(***************************************************************************)
\* what the validator's contract asks of one record
WellFormed(item) ==
    /\ {"id", "symbol", "current_price", "last_updated"} \subseteq DOMAIN item
    /\ IsNum(item["current_price"])
    /\ item["current_price"].num > 0

\* C1: validate_crypto_data returns true exactly when the batch is non-empty
\* and every record has the four required fields and a price that is present
\* and > 0; one bad record anywhere in the batch makes it false.
C1_ValidateIffWellFormed ==
    is_valid # <<>> =>
        (is_valid[1] <=> (raw # <<>> /\ \A i \in DOMAIN raw : WellFormed(raw[i])))

\* validate has rejected a batch of three whose only bad record is the last
\* one, with price 0
C1_Witness ==
    /\ is_valid = <<FALSE>>
    /\ Len(raw) = 3
    /\ WellFormed(raw[1]) /\ WellFormed(raw[2])
    /\ "current_price" \in DOMAIN raw[3]
    /\ raw[3]["current_price"] = Num(0)

\* the reports analyze_for_alerts returned
Reports == { analysis[k].val : k \in {j \in DOMAIN analysis :
                                        analysis[j].ok /\ analysis[j].val # Null} }

\* positions of the records of the batch at or over the threshold
QualifyingAt(th) ==
    { i \in DOMAIN batch : Abs(batch[i].price_change_percentage_24h.num) >= th }

\* entry e was built from record item
BuiltFrom(e, item) ==
    /\ e.coin_id = item.id
    /\ e.price = item.current_price
    /\ e.change_pct = item.price_change_percentage_24h

\* C2: the entries of a report correspond one-to-one to the records with
\* abs(price_change_percentage_24h) >= threshold, the boundary included.
C2_EntriesAreTheQualifying ==
    \A rep \in Reports :
        LET Q == QualifyingAt(alert_threshold) IN
        /\ Len(rep.alerts) = Cardinality(Q)
        /\ \E f \in [DOMAIN rep.alerts -> Q] :
              /\ \A j, k \in DOMAIN rep.alerts : f[j] = f[k] => j = k
              /\ \A j \in DOMAIN rep.alerts : BuiltFrom(rep.alerts[j], batch[f[j]])

\* a report for threshold 5 on a batch of three: two entries, one of them
\* for a change of exactly -5
C2_Witness ==
    /\ alert_threshold = 5
    /\ Len(batch) = 3
    /\ \E rep \in Reports :
          /\ Len(rep.alerts) = 2
          /\ \E j \in DOMAIN rep.alerts : rep.alerts[j].change_pct = Num(-5)

\* C3: analyze_for_alerts returns None if and only if no record qualifies;
\* a report it returns has at least one entry.
C3_NoneIffNothingQualifies ==
    \A k \in DOMAIN analysis :
        analysis[k].ok =>
            /\ (analysis[k].val = Null) <=> (QualifyingAt(alert_threshold) = {})
            /\ analysis[k].val # Null => Len(analysis[k].val.alerts) >= 1

\* None was returned for a batch of three records, all under threshold 6
C3_Witness ==
    /\ analysis # <<>>
    /\ analysis[1] = Return(Null)
    /\ alert_threshold = 6
    /\ Len(batch) = 3

\* the subsequence of s made of the elements where abs of the change is v
WithAbs(s, v, Change(_)) == SelectSeq(s, LAMBDA x : Abs(Change(x).num) = v)
EntryChange(e) == e.change_pct
ItemChange(item) == item.price_change_percentage_24h
EntryKey(e) == <<e.coin_id, e.price, e.change_pct>>
ItemKey(item) == <<item.id, item.current_price, item.price_change_percentage_24h>>
Keys(s, Key(_)) == [i \in DOMAIN s |-> Key(s[i])]

\* C4: the entries of a report are in non-increasing order of the absolute
\* change, and entries with equal absolute change are in the order of their
\* records in the batch.
C4_SortedDescendingStable ==
    \A rep \in Reports :
        /\ \A j, k \in DOMAIN rep.alerts :
              j < k => Abs(rep.alerts[j].change_pct.num) >= Abs(rep.alerts[k].change_pct.num)
        /\ \A v \in { Abs(rep.alerts[j].change_pct.num) : j \in DOMAIN rep.alerts } :
              Keys(WithAbs(rep.alerts, v, EntryChange), EntryKey)
                  = Keys(WithAbs(batch, v, ItemChange), ItemKey)

\* a batch [5, 6, -5] reported as [6, 5, -5]
C4_Witness ==
    /\ Len(batch) = 3
    /\ Keys(batch, ItemChange) = <<Num(5), Num(6), Num(-5)>>
    /\ \E rep \in Reports : Keys(rep.alerts, EntryChange) = <<Num(6), Num(5), Num(-5)>>

C6_TransformOneToOne ==
    (transformed_data # <<>> /\ transformed_data[1].ok) =>
        LET out == transformed_data[1].val IN
        /\ Len(out) = Len(raw)
        /\ \A i \in DOMAIN out :
              /\ out[i].id = raw[i]["id"]
              /\ out[i].symbol = raw[i]["symbol"]
              /\ out[i].current_price = raw[i]["current_price"]

\* three different assets transformed
C6_Witness ==
    /\ transformed_data # <<>>
    /\ transformed_data[1].ok
    /\ Len(raw) = 3
    /\ Cardinality({ raw[i]["id"] : i \in DOMAIN raw }) = 3

\* C7: every optional numeric field of every output record of
\* transform_crypto_data is a number: 0 when the raw record has no value for
\* it (absent, or present and null), the raw value otherwise.
C7_OptionalFieldsAreNumbers ==
    (transformed_data # <<>> /\ transformed_data[1].ok) =>
        LET out == transformed_data[1].val IN
        \A i \in DOMAIN out : \A f \in OptionalFields :
            LET given == f \in DOMAIN raw[i] /\ raw[i][f] # Null
                v == CASE f = "market_cap" -> out[i].market_cap
                       [] f = "total_volume" -> out[i].total_volume
                       [] f = "price_change_24h" -> out[i].price_change_24h
                       [] OTHER -> out[i].price_change_percentage_24h
            IN /\ IsNum(v)
               /\ given => v = raw[i][f]
               /\ ~given => v = Num(0)

(***************************************************************************)
(* Claims about a pipeline run, checked under Spec.                        *)
(***************************************************************************)
\* the batch extract handed on does not pass the validator's contract
InvalidBatchExtracted ==
    /\ xcom["extract_crypto_data"] # <<>>
    /\ \E i \in DOMAIN xcom["extract_crypto_data"][1] :
          ~WellFormed(xcom["extract_crypto_data"][1][i])

AfterValidate ==
    {"transform_data", "load_to_database", "analyze_for_alerts", "check_alert_condition",
     "send_alert_notification", "send_summary_notification", "pipeline_complete"}

NotifyTasks == {"send_alert_notification", "send_summary_notification"}

RowsOfRun == { r \in store : r.execution_date = logical_date }

\* C8: in a run whose fetched batch fails validation the validate task
\* fails, no task after it executes, no row is written and no message is
\* sent.
C8_InvalidBatchStopsRun ==
    InvalidBatchExtracted =>
        /\ state["validate_data"] \in {"none", "failed"}
        /\ \A t \in AfterValidate : tries[t] = 0 /\ state[t] \in {"none", "upstream_failed"}
        /\ RowsOfRun = {}
        /\ store \subseteq {EarlierRow}
        /\ delivered = <<>>
        /\ RunEnded => state["validate_data"] = "failed" /\ RunFailed

\* a run ended on a batch of two whose second record has price 0
C8_Witness ==
    /\ RunEnded
    /\ InvalidBatchExtracted
    /\ Len(xcom["extract_crypto_data"][1]) = 2
    /\ WellFormed(xcom["extract_crypto_data"][1][1])
    /\ state["validate_data"] = "failed"
    /\ store = {EarlierRow}

\* the latest fetch returned a batch the validator's contract rejects
InvalidFetched ==
    /\ fetched # <<>>
    /\ fetched[1].ok
    /\ (fetched[1].val = <<>> \/ \E i \in DOMAIN fetched[1].val : ~WellFormed(fetched[1].val[i]))

\* no further fetch, at most the one attempt of validate, and the run, when
\* it ends, is failed
NoRetryStep ==
    /\ fetched' = fetched
    /\ tries'["extract_crypto_data"] = tries["extract_crypto_data"]
    /\ tries'["validate_data"] <= 1
    /\ RunEnded' => RunFailed'

\* C9 as stated: once a batch that is invalid (empty, missing fields,
\* non-positive price) has been fetched, the run fetches no more and checks
\* once before it is marked failed.
C9_NoRefetchOfInvalidBatch ==
    [][InvalidFetched => NoRetryStep]_vars

\* C9 amended: once a non-empty batch that is invalid (missing fields,
\* non-positive price) has been fetched, the fetch is not executed again
\* and validate is attempted exactly once before the run is marked failed.
C9_NoRefetchOfNonEmptyInvalidBatch ==
    [][(InvalidFetched /\ fetched[1].val # <<>>) =>
          (NoRetryStep /\ (RunEnded' => tries'["validate_data"] = 1))]_vars

\* a failed run: one fetch, of a non-empty invalid batch, one attempt of
\* validate
C9_Witness ==
    /\ RunFailed
    /\ InvalidFetched
    /\ fetched[1].val # <<>>
    /\ tries["extract_crypto_data"] = 1
    /\ tries["validate_data"] = 1

\* row r holds the values of record item for this run
RowHolds(r, item) ==
    /\ r.execution_date = logical_date
    /\ r.coin_id = item.id
    /\ r.current_price = item.current_price
    /\ r.market_cap = item.market_cap
    /\ r.total_volume = item.total_volume
    /\ r.price_change_24h = item.price_change_24h
    /\ r.price_change_percentage_24h = item.price_change_percentage_24h
    /\ r.last_updated = item.last_updated

\* the store holds this run's batch, one row per record and no other row of
\* this run
BatchStored ==
    LET data == xcom["transform_data"][1] IN
    /\ \A i \in DOMAIN data : \E r \in RowsOfRun : RowHolds(r, data[i])
    /\ Cardinality(RowsOfRun) = Len(data)

MovedAtLeastFive ==
    \E i \in DOMAIN xcom["transform_data"][1] :
        Abs(xcom["transform_data"][1][i].price_change_percentage_24h.num) >= 5

\* C11: once the branch has decided, exactly one of the two notification
\* tasks is left to execute and the other is skipped without an attempt: the
\* alert task when some record of the batch has an absolute 24h change of 5
\* or more, the summary task otherwise; before the branch neither executes.
C11_ExactlyOneNotification ==
    IF state["check_alert_condition"] = "success"
    THEN /\ state["send_summary_notification"] = "skipped" <=> MovedAtLeastFive
         /\ state["send_alert_notification"] = "skipped" <=> ~MovedAtLeastFive
         /\ MovedAtLeastFive => tries["send_summary_notification"] = 0
         /\ ~MovedAtLeastFive => tries["send_alert_notification"] = 0
    ELSE \A t \in NotifyTasks : tries[t] = 0

C11_Witness ==
    /\ state["check_alert_condition"] = "success"
    /\ state["send_alert_notification"] = "success"
    /\ state["send_summary_notification"] = "skipped"

(***************************************************************************)
(* C12                                                                     *)
(***************************************************************************)
OneRowPerKey ==
    \A r, q \in store :
        (r.execution_date = q.execution_date /\ r.coin_id = q.coin_id) => r = q

\* after a call that committed, each record of its batch is in the store
\* under the call's run timestamp, with the record's values
LatestLoadWins ==
    (last_call # <<>> /\ last_call[1].ok) =>
        \A i \in DOMAIN last_call[1].data_list :
            LET item == last_call[1].data_list[i] IN
            \E r \in store :
                /\ r.execution_date = last_call[1].execution_date
                /\ r.coin_id = item.id
                /\ r.current_price = item.current_price
                /\ r.market_cap = item.market_cap
                /\ r.total_volume = item.total_volume
                /\ r.price_change_24h = item.price_change_24h
                /\ r.price_change_percentage_24h = item.price_change_percentage_24h
                /\ r.last_updated = item.last_updated

\* a call with the arguments of the call before it, which committed
SameLoadAgain ==
    /\ calls' = calls + 1
    /\ last_call # <<>>
    /\ last_call[1].ok
    /\ last_call'[1].data_list = last_call[1].data_list
    /\ last_call'[1].execution_date = last_call[1].execution_date

\* C12: after any sequence of insert_crypto_data calls the store holds at
\* most one row per (execution_date, coin_id); a committed load puts the
\* values of its records (price, market cap, volume, change, last-updated)
\* on the rows of their keys, overwriting what an earlier load left there;
\* and loading the same batch under the same run timestamp a second time
\* leaves the store as the first load left it.
C12_LoadIsIdempotent ==
    /\ [](OneRowPerKey /\ LatestLoadWins)
    /\ [][SameLoadAgain => store' = store]_vars

\* a refreshed record was loaded over the row an earlier load left under
\* its key
C12_Witness ==
    /\ last_call # <<>>
    /\ last_call[1].ok
    /\ \E i \in DOMAIN last_call[1].data_list :
          \E r \in last_call[1].rows_before :
              /\ r.execution_date = last_call[1].execution_date
              /\ r.coin_id = last_call[1].data_list[i].id
              /\ r.current_price # last_call[1].data_list[i].current_price
              /\ r.last_updated # last_call[1].data_list[i].last_updated

(***************************************************************************)
(* C13                                                                     *)
(***************************************************************************)
AfterExtract == Tasks \ {"setup_database", "extract_crypto_data"}

\* C13: the extract task is attempted at most 4 times (one attempt and 3
\* retries); it is marked failed only by its 4th failing attempt, and then
\* no downstream task is ever attempted, nothing is stored or delivered for
\* the run, and the run ends failed; when an attempt succeeds the run goes
\* on to validate, which is attempted before the run ends.
C13_ExtractRetriedThreeTimes ==
    /\ tries["extract_crypto_data"] <= 4
    /\ state["extract_crypto_data"] = "up_for_retry" => tries["extract_crypto_data"] < 4
    /\ state["extract_crypto_data"] = "failed" =>
          /\ tries["extract_crypto_data"] = 4
          /\ \A t \in AfterExtract : tries[t] = 0 /\ state[t] \in {"none", "upstream_failed"}
          /\ RowsOfRun = {}
          /\ delivered = <<>>
          /\ RunEnded => RunFailed
    /\ state["extract_crypto_data"] = "success" =>
          /\ state["validate_data"] \notin {"upstream_failed", "skipped"}
          /\ RunEnded => tries["validate_data"] = 1

\* the fetch failed four times and the run ended
C13_Witness ==
    /\ state["extract_crypto_data"] = "failed"
    /\ tries["extract_crypto_data"] = 4
    /\ fetched = <<Raise("RequestException")>>
    /\ RunEnded

(***************************************************************************)
(* C14                                                                     *)
(***************************************************************************)
\* validate passed a batch with a timestamp that is no ISO date-time
BadTimestampValidated ==
    /\ state["validate_data"] = "success"
    /\ \E i \in DOMAIN xcom["validate_data"][1] :
          xcom["validate_data"][1][i].last_updated = TsBad

AfterTransform ==
    {"load_to_database", "analyze_for_alerts", "check_alert_condition",
     "send_alert_notification", "send_summary_notification", "pipeline_complete"}

\* transform never returns for the batch, and nothing behind it executes
NothingBehindTransform ==
    /\ state["transform_data"] \in {"none", "up_for_retry", "failed"}
    /\ xcom["transform_data"] = <<>>
    /\ \A t \in AfterTransform : tries[t] = 0 /\ state[t] \in {"none", "upstream_failed"}
    /\ RowsOfRun = {}
    /\ delivered = <<>>
    /\ RunEnded => RunFailed

\* C14: on a batch that passed validation with an unparsable timestamp,
\* transform raises without a partial result, the failing transform is not
\* attempted again, and load, analyze and the notification tasks never
\* execute.
C14_TransformFailsOnce ==
    BadTimestampValidated =>
        /\ NothingBehindTransform
        /\ tries["transform_data"] <= 1
        /\ tries["transform_data"] = 1 => state["transform_data"] = "failed"


(***************************************************************************)
(* Claims about formatted text, checked under SpecFormat.                  *)
(***************************************************************************)
Called(f) == shown[f] # <<>>
Text(f) == shown[f][1]

IsDigit(c) == c \in {"0", "1", "2", "3", "4", "5", "6", "7", "8", "9"}
DotAt(s) == CHOOSE i \in DOMAIN s : s[i] = "."
\* the text has one ".", with digits only up to an optional final "%"
DecimalsShown(s) ==
    IF /\ Cardinality({ i \in DOMAIN s : s[i] = "." }) = 1
       /\ \A i \in DOMAIN s : i > DotAt(s) => (IsDigit(s[i]) \/ (i = Len(s) /\ s[i] = "%"))
    THEN Cardinality({ i \in DOMAIN s : i > DotAt(s) /\ IsDigit(s[i]) })
    ELSE -1
HasSeparator(s) == \E i \in DOMAIN s : s[i] = ","
\* left of the ".", every fourth place is a "," and the others are digits
GroupedByThousands(s) ==
    \A i \in DOMAIN s :
        (i < DotAt(s) /\ (IsDigit(s[i]) \/ s[i] = ",")) =>
            (s[i] = "," <=> (DotAt(s) - i) % 4 = 0)
\* the number formatted is at least the whole number n
NumberAtLeast(n) == number.m \div Pow10(number.k) >= n

(***************************************************************************)
(* C15                                                                     *)
(***************************************************************************)
\* C15: the summary line and the alert block render the change percentage
\* with an explicit sign and 2 decimals, "+" for every change >= 0 (0
\* included) and "-" for a negative one, and both render the same change as
\* the same text.
C15_SignedPercentage ==
    (Called("summary_change_text") /\ Called("alert_change_text")) =>
        /\ Text("summary_change_text")[1] = (IF number.m >= 0 THEN "+" ELSE "-")
        /\ Text("alert_change_text")[1] = (IF number.m >= 0 THEN "+" ELSE "-")
        /\ DecimalsShown(Text("summary_change_text")) = 2
        /\ DecimalsShown(Text("alert_change_text")) = 2
        /\ Text("summary_change_text") = Text("alert_change_text")

\* C15 amended: both render a change other than 0 with an explicit sign and
\* 2 decimals ("+" above 0, "-" below) and as the same text; a change of
\* exactly 0 is "0.00%" without a sign in the summary line and "+0.00%" in
\* the alert block.
C15_SignedPercentageExceptZero ==
    (Called("summary_change_text") /\ Called("alert_change_text")) =>
        /\ DecimalsShown(Text("summary_change_text")) = 2
        /\ DecimalsShown(Text("alert_change_text")) = 2
        /\ number.m # 0 =>
              /\ Text("summary_change_text")[1] = (IF number.m > 0 THEN "+" ELSE "-")
              /\ Text("summary_change_text") = Text("alert_change_text")
        /\ number.m = 0 =>
              /\ Text("summary_change_text") = <<"0", ".", "0", "0", "%">>
              /\ Text("alert_change_text") = <<"+", "0", ".", "0", "0", "%">>

C15_Witness ==
    /\ Called("summary_change_text")
    /\ Called("alert_change_text")
    /\ number.m = 0

(***************************************************************************)
(* C16                                                                     *)
(***************************************************************************)
\* C16: the summary line and the alert block render a price by one rule: a
\* price of 1000 or more (1000 included) with thousands separators and 2
\* decimals, a price below 1000 with 4 decimals and no separators; for the
\* same price both give the same text.
C16_OnePriceRule ==
    (Called("summary_price_str") /\ Called("alert_price_str")) =>
        /\ Text("summary_price_str") = Text("alert_price_str")
        /\ Text("alert_price_str")[1] = "$"
        /\ IF NumberAtLeast(1000)
           THEN /\ DecimalsShown(Text("alert_price_str")) = 2
                /\ HasSeparator(Text("alert_price_str"))
                /\ GroupedByThousands(Text("alert_price_str"))
           ELSE /\ DecimalsShown(Text("alert_price_str")) = 4
                /\ ~HasSeparator(Text("alert_price_str"))

\* both composers rendered the price 1000
C16_Witness ==
    /\ Called("summary_price_str")
    /\ Called("alert_price_str")
    /\ number = Dec(1000, 0)

(***************************************************************************)
(* C17                                                                     *)
(***************************************************************************)
\* C17: format_price has three tiers: a price of 1000 or more is rendered
\* with thousands separators and 2 decimals, a price from 1 up to but not
\* including 1000 with 4 decimals, a price below 1 with 8 decimals; 1000 and
\* 1 belong to the higher tier.
C17_PriceTiers ==
    Called("format_price") =>
        /\ Text("format_price")[1] = "$"
        /\ IF NumberAtLeast(1000)
           THEN /\ DecimalsShown(Text("format_price")) = 2
                /\ HasSeparator(Text("format_price"))
                /\ GroupedByThousands(Text("format_price"))
           ELSE IF NumberAtLeast(1)
           THEN /\ DecimalsShown(Text("format_price")) = 4
                /\ ~HasSeparator(Text("format_price"))
           ELSE /\ DecimalsShown(Text("format_price")) = 8
                /\ ~HasSeparator(Text("format_price"))

\* the price 1 was rendered, in the middle tier
C17_Witness ==
    /\ Called("format_price")
    /\ number = Dec(1000, 3)
    /\ Text("format_price") = <<"$", "1", ".", "0", "0", "0", "0">>

(***************************************************************************)
(* C18                                                                     *)
(***************************************************************************)
\* C18: format_percentage renders 2 decimals and a final "%"; it puts "+"
\* in front only when include_sign is true and the value is above 0; a value
\* of 0 or below is rendered with its own sign (none for 0) in both modes,
\* where include_sign makes no difference.
C18_PlusOnlyAboveZero ==
    (Called("format_percentage") /\ Called("format_percentage_unsigned")) =>
        /\ DecimalsShown(Text("format_percentage")) = 2
        /\ DecimalsShown(Text("format_percentage_unsigned")) = 2
        /\ Text("format_percentage")[Len(Text("format_percentage"))] = "%"
        /\ Text("format_percentage_unsigned")[1] # "+"
        /\ Text("format_percentage_unsigned")[1] = "-" <=> number.m < 0
        /\ IF number.m > 0
           THEN Text("format_percentage") = <<"+">> \o Text("format_percentage_unsigned")
           ELSE Text("format_percentage") = Text("format_percentage_unsigned")

\* 0 was rendered in both modes
C18_Witness ==
    /\ Called("format_percentage")
    /\ Called("format_percentage_unsigned")
    /\ number.m = 0
    /\ Text("format_percentage") = <<"0", ".", "0", "0", "%">>

(***************************************************************************)
(* C19                                                                     *)
(***************************************************************************)
\* C19: get_trend_emoji puts a change x in exactly one of five classes:
\* rocket for x > 5, chart-up for 0 < x <= 5, collision for x < -5,
\* chart-down for -5 <= x < 0, arrow-right for x = 0.
C19_FiveTrendClasses ==
    Called("get_trend_emoji") =>
        Text("get_trend_emoji") =
            (IF number.m > 5 * Pow10(number.k) THEN "rocket"
             ELSE IF number.m > 0 THEN "chart_up"
             ELSE IF number.m < (-5) * Pow10(number.k) THEN "collision"
             ELSE IF number.m < 0 THEN "chart_down"
             ELSE "arrow_right")

\* +5 was classified
C19_Witness ==
    /\ Called("get_trend_emoji")
    /\ number = Dec(5000, 3)
    /\ Text("get_trend_emoji") = "chart_up"

(***************************************************************************)
(* C20, checked under SpecCore.                                            *)
(***************************************************************************)
\* the report the alert message was composed from
AlertComposed == composed # <<>> /\ composed[1].ok /\ analysis[Len(analysis)].val # Null

\* a whole-number change with its sign and 2 decimals
SignedChange(n) ==
    <<IF n < 0 THEN "-" ELSE "+">> \o Digits(Abs(n)) \o <<".", "0", "0", "%">>

\* C20: format_alert_message states the report's threshold in its header
\* and emits one block per entry of the report, in the report's order;
\* composed with analyze_for_alerts, the blocks name exactly the symbols of
\* the records of the batch with abs(change) >= threshold, one block each,
\* with that record's change signed and to 2 decimals.
C20_OneBlockPerEntry ==
    AlertComposed =>
        LET m == composed[1].val
            rep == analysis[Len(analysis)].val
            Q == QualifyingAt(alert_threshold)
        IN  /\ m.threshold = Digits(alert_threshold) \o <<".", "0">>
            /\ Len(m.blocks) = Len(rep.alerts)
            /\ \A j \in DOMAIN m.blocks :
                  /\ m.blocks[j].symbol = rep.alerts[j].symbol
                  /\ m.blocks[j].direction = rep.alerts[j].direction
                  /\ m.blocks[j].change = SignedChange(rep.alerts[j].change_pct.num)
            /\ Len(m.blocks) = Cardinality(Q)
            /\ \E f \in [DOMAIN m.blocks -> Q] :
                  /\ \A j, k \in DOMAIN m.blocks : f[j] = f[k] => j = k
                  /\ \A j \in DOMAIN m.blocks :
                        /\ m.blocks[j].symbol = Str(Upper(batch[f[j]].symbol.str))
                        /\ m.blocks[j].change =
                              SignedChange(batch[f[j]].price_change_percentage_24h.num)

\* an alert message of two blocks at threshold 5, for a batch of three
\* records of which one stayed under the threshold
C20_Witness ==
    /\ AlertComposed
    /\ alert_threshold = 5
    /\ Len(batch) = 3
    /\ Len(composed[1].val.blocks) = 2
    /\ composed[1].val.blocks[1].change # composed[1].val.blocks[2].change

(***************************************************************************)
(* C21, checked under Spec.                                                *)
(***************************************************************************)
\* the batch the run accepted from the fetch
FetchedBatch == xcom["extract_crypto_data"][1]

\* the run's rows are the records of the fetched batch, one row each
WholeBatchStored ==
    /\ Cardinality(RowsOfRun) = Len(FetchedBatch)
    /\ \A i \in DOMAIN FetchedBatch :
          \E r \in RowsOfRun : /\ r.coin_id = FetchedBatch[i].id
                               /\ r.current_price = FetchedBatch[i].current_price

\* the analysis was made of every record of the fetched batch, in order
WholeBatchAnalyzed ==
    LET data == xcom["analyze_for_alerts"][1].summary_data IN
    /\ Len(data) = Len(FetchedBatch)
    /\ \A i \in DOMAIN data : data[i].id = FetchedBatch[i].id

\* a delivered message covers the whole batch: a summary has one line per
\* record, an alert one block per record at or over the threshold
WholeBatchNotified(m) ==
    IF m.title = "CRYPTO ALERT!"
    THEN Len(m.blocks) =
             Cardinality({ i \in DOMAIN FetchedBatch :
                             Abs(FetchedBatch[i].price_change_percentage_24h.num) >= 5 })
    ELSE Len(m.lines) = Len(FetchedBatch)

NoPartialBatch ==
    /\ RowsOfRun # {} <=> state["load_to_database"] = "success"
    /\ state["load_to_database"] = "success" => WholeBatchStored
    /\ state["analyze_for_alerts"] = "success" => WholeBatchAnalyzed
    /\ \A k \in DOMAIN delivered : WholeBatchNotified(delivered[k])
    /\ InvalidBatchExtracted =>
          /\ RowsOfRun = {}
          /\ delivered = <<>>
          /\ \A t \in AfterValidate : tries[t] = 0

\* an attempt of the load task that raised
LoadAttemptFailed ==
    /\ tries'["load_to_database"] = tries["load_to_database"] + 1
    /\ state'["load_to_database"] # "success"

\* C21: a run never stores, analyzes or notifies a strict subset of the
\* fetched batch: the rows of the run are there only after a successful load
\* and are then the whole batch, the analysis and every delivered message are
\* made of the whole batch, one invalid record stops the run before anything
\* is stored or sent, and a load attempt that fails leaves the store as it
\* was (the transaction is rolled back).
C21_NoPartialBatch ==
    /\ []NoPartialBatch
    /\ [][LoadAttemptFailed => store' = store]_vars

\* the load failed for good on a batch of two of which one record has no
\* symbol text, and no row of the run is in the store
C21_Witness ==
    /\ state["load_to_database"] = "failed"
    /\ Len(FetchedBatch) = 2
    /\ \E i \in DOMAIN FetchedBatch : FetchedBatch[i].symbol = Null
    /\ \E i \in DOMAIN FetchedBatch : FetchedBatch[i].symbol # Null
    /\ RowsOfRun = {}

(***************************************************************************)
(* C22, checked under Spec.                                                *)
(***************************************************************************)
CasePairs ==
    {<<"b", "B">>, <<"t", "T">>, <<"c", "C">>, <<"e", "E">>, <<"h", "H">>,
     <<"s", "S">>, <<"o", "O">>, <<"l", "L">>}

\* text up is text low with every letter in upper case
UpperCaseOf(up, low) ==
    /\ IsStr(up)
    /\ IsStr(low)
    /\ Len(up.str) = Len(low.str)
    /\ \A i \in DOMAIN low.str : <<low.str[i], up.str[i]>> \in CasePairs

\* the symbol the fetched batch gives for the asset id
RawSymbols(id) == { FetchedBatch[i].symbol : i \in { j \in DOMAIN FetchedBatch : FetchedBatch[j].id = id } }

SymbolShownUpper(id, symbol) == \E low \in RawSymbols(id) : UpperCaseOf(symbol, low)

\* C22: transform keeps each symbol as the raw record gives it, and every
\* row stored, every alert entry, every summary line and every alert block
\* carries the upper-cased form of the symbol of its record.
C22_SymbolCasing ==
    /\ state["transform_data"] = "success" =>
          \A i \in DOMAIN xcom["transform_data"][1] :
              xcom["transform_data"][1][i].symbol = FetchedBatch[i].symbol
    /\ \A r \in RowsOfRun : SymbolShownUpper(r.coin_id, r.symbol)
    /\ (state["analyze_for_alerts"] = "success"
        /\ xcom["analyze_for_alerts"][1].alert_data # Null) =>
          \A j \in DOMAIN xcom["analyze_for_alerts"][1].alert_data.alerts :
              LET e == xcom["analyze_for_alerts"][1].alert_data.alerts[j] IN
              SymbolShownUpper(e.coin_id, e.symbol)
    /\ \A k \in DOMAIN delivered :
          IF delivered[k].title = "CRYPTO ALERT!"
          THEN \A j \in DOMAIN delivered[k].blocks :
                  /\ delivered[k].blocks[j].symbol =
                        xcom["analyze_for_alerts"][1].alert_data.alerts[j].symbol
                  /\ \E i \in DOMAIN FetchedBatch :
                        UpperCaseOf(delivered[k].blocks[j].symbol, FetchedBatch[i].symbol)
          ELSE \A i \in DOMAIN delivered[k].lines :
                  UpperCaseOf(delivered[k].lines[i].symbol, FetchedBatch[i].symbol)

\* a run stored the rows of its batch and delivered an alert for it
C22_Witness ==
    /\ RowsOfRun # {}
    /\ delivered # <<>>
    /\ delivered[1].title = "CRYPTO ALERT!"
    /\ \E r \in RowsOfRun : r.symbol = Str(<<"B", "T", "C">>)
    /\ xcom["transform_data"][1][1].symbol = Str(<<"b", "t", "c">>)


(***************************************************************************)
(* C23, checked under SpecStore.                                           *)
(***************************************************************************)
\* row r of the store is the newest of its asset by run timestamp
NewestOfAsset(r) ==
    /\ r \in store
    /\ \A q \in store : q.coin_id = r.coin_id => q.execution_date <= r.execution_date

\* C23: after any sequence of loads, in any order of run timestamps, each
\* latest-prices query returns exactly one row per asset id in the store,
\* and that row has the values of the asset's row with the greatest run
\* timestamp, whichever row was written last.
C23_LatestPerAsset ==
    LET res == client_get_latest_prices(store)
        res2 == get_latest_prices(store, {})
        ids == { r.coin_id : r \in store }
    IN  /\ Len(res) = Cardinality(ids)
        /\ Len(res2) = Cardinality(ids)
        /\ \A id \in ids : /\ \E i \in DOMAIN res : res[i].coin_id = id
                           /\ \E i \in DOMAIN res2 : res2[i].coin_id = id
        /\ \A i \in DOMAIN res :
              \E r \in store :
                  /\ NewestOfAsset(r)
                  /\ r.coin_id = res[i].coin_id
                  /\ r.execution_date = res[i].execution_date
                  /\ r.current_price = res[i].current_price
                  /\ r.price_change_percentage_24h = res[i].price_change_percentage_24h
                  /\ r.last_updated = res[i].last_updated
        /\ \A i \in DOMAIN res2 :
              \E r \in store :
                  /\ NewestOfAsset(r)
                  /\ r.coin_id = res2[i].coin_id
                  /\ r.current_price = res2[i].current_price
                  /\ r.price_change_percentage_24h = res2[i].price_change_percentage_24h
                  /\ r.last_updated = res2[i].last_updated

\* a backfill: the latest load wrote bitcoin under the older run timestamp
\* at another price than its row under the newer one, and the query returns
\* the row of the newer run timestamp
C23_Witness ==
    /\ last_call # <<>>
    /\ last_call[1].ok
    /\ last_call[1].execution_date = EarlierRun
    /\ \E r, q \in store :
          /\ r.coin_id = q.coin_id
          /\ r.execution_date = EarlierRun
          /\ q.execution_date = logical_date
          /\ q \in last_call[1].rows_before
          /\ r \notin last_call[1].rows_before
          /\ r.current_price # q.current_price
          /\ \E i \in DOMAIN client_get_latest_prices(store) :
                /\ client_get_latest_prices(store)[i].coin_id = q.coin_id
                /\ client_get_latest_prices(store)[i].current_price = q.current_price
    /\ Len(client_get_latest_prices(store)) = 2

(***************************************************************************)
(* C24, checked under SpecCore.                                            *)
(***************************************************************************)
\* C24: for a positive threshold, every entry of every report carries the
\* id, price and change percentage of a record of the batch, its direction
\* is up exactly when that change is positive and down exactly when it is
\* negative, and the report's threshold is the one the caller passed.
C24_EntryFields ==
    alert_threshold > 0 =>
        \A rep \in Reports :
            /\ rep.threshold = alert_threshold
            /\ \A j \in DOMAIN rep.alerts :
                  LET e == rep.alerts[j] IN
                  /\ \E i \in DOMAIN batch : BuiltFrom(e, batch[i])
                  /\ e.direction \in {"chart_up", "chart_down"}
                  /\ e.direction = "chart_up" <=> e.change_pct.num > 0
                  /\ e.direction = "chart_down" <=> e.change_pct.num < 0

\* a report at threshold 5 with an entry going up and an entry going down
C24_Witness ==
    /\ alert_threshold = 5
    /\ \E rep \in Reports :
          /\ \E j \in DOMAIN rep.alerts : rep.alerts[j].direction = "chart_up"
          /\ \E j \in DOMAIN rep.alerts :
                rep.alerts[j].direction = "chart_down" /\ rep.alerts[j].change_pct = Num(-5)

(***************************************************************************)
(* C25, checked under SpecCore.                                            *)
(***************************************************************************)
\* the summary was composed of the batch
SummaryComposed == composed # <<>> /\ composed[1].ok /\ analysis[1].val = Null

DigitValue(c) == CHOOSE d \in 0..9 : DigitChars[d + 1] = c

RECURSIVE NatOf(_)
NatOf(digs) ==
    IF digs = <<>> THEN 0
    ELSE 10 * NatOf(SubSeq(digs, 1, Len(digs) - 1)) + DigitValue(digs[Len(digs)])

\* the number of hundredths a text "$<digits>.<2 digits>B" shows
HundredthsShown(t) ==
    100 * NatOf(SubSeq(t, 2, DotAt(t) - 1)) + NatOf(SubSeq(t, DotAt(t) + 1, Len(t) - 1))

RECURSIVE VolumeOf(_)
VolumeOf(data) ==
    IF data = <<>> THEN 0
    ELSE VolumeOf(Tail(data))
         + (IF "total_volume" \in DOMAIN Head(data) THEN Head(data).total_volume.num ELSE 0)

\* C25: format_crypto_summary emits one line per record of the batch, in
\* batch order, and one footer showing the sum of total_volume over all
\* records in billions, to 2 decimals.
C25_OneLinePerRecord ==
    SummaryComposed =>
        LET m == composed[1].val IN
        /\ Len(m.lines) = Len(batch)
        /\ \A i \in DOMAIN m.lines :
              /\ m.lines[i].symbol = Str(Upper(batch[i].symbol.str))
              /\ m.lines[i].trend_emoji =
                    (IF batch[i].price_change_percentage_24h.num > 0 THEN "chart_up"
                     ELSE IF batch[i].price_change_percentage_24h.num < 0 THEN "chart_down"
                     ELSE "arrow_right")
              /\ batch[i].price_change_percentage_24h.num # 0 =>
                    m.lines[i].change_text =
                        SignedChange(batch[i].price_change_percentage_24h.num)
        /\ m.total_volume[1] = "$"
        /\ m.total_volume[Len(m.total_volume)] = "B"
        /\ Len(m.total_volume) - DotAt(m.total_volume) = 3
        /\ Abs(VolumeOf(batch) - 10000000 * HundredthsShown(m.total_volume)) <= 5000000

\* the summary of a batch of three records, its footer showing 0.30 for a
\* volume of 0.2 + 0.0999 + 0.0001 billions
C25_Witness ==
    /\ SummaryComposed
    /\ Len(batch) = 3
    /\ composed[1].val.total_volume = <<"$", "0", ".", "3", "0", "B">>
    /\ composed[1].val.lines[1].symbol # composed[1].val.lines[2].symbol

(***************************************************************************)
(* C26, checked under Spec.                                                *)
(***************************************************************************)
BeforeEnd == Tasks \ {"pipeline_complete"}

\* the notification task the branch returned succeeded, the other one is
\* skipped, and no task failed
ChosenNotificationSucceeded ==
    /\ xcom["check_alert_condition"] # <<>>
    /\ state[xcom["check_alert_condition"][1]] = "success"
    /\ \A t \in NotifyTasks \ {xcom["check_alert_condition"][1]} : state[t] = "skipped"
    /\ \A t \in BeforeEnd : state[t] \notin {"failed", "upstream_failed"}

ChosenNotificationFailed ==
    /\ xcom["check_alert_condition"] # <<>>
    /\ state[xcom["check_alert_condition"][1]] = "failed"

EndOfRun ==
    /\ tries["pipeline_complete"] > 0 =>
          state["pipeline_complete"] = "success" /\ ChosenNotificationSucceeded
    /\ (RunEnded /\ ChosenNotificationSucceeded) => tries["pipeline_complete"] = 1
    /\ ChosenNotificationFailed =>
          /\ tries["pipeline_complete"] = 0
          /\ state["pipeline_complete"] \in {"none", "upstream_failed"}
    /\ RunEnded =>
          /\ tries["pipeline_complete"] > 0 \/ \E t \in Tasks : state[t] = "failed"
          /\ ~(tries["pipeline_complete"] > 0 /\ \E t \in Tasks : state[t] = "failed")

\* a step of the scheduler takes nothing back (attempts are counted, an
\* ended task stays as it ended) and adds an attempt or ends a task
Progress ==
    /\ \A t \in Tasks :
          /\ tries'[t] >= tries[t]
          /\ state[t] \in Finished => state'[t] = state[t]
    /\ \E t \in Tasks :
          \/ tries'[t] > tries[t]
          \/ state[t] \notin Finished /\ state'[t] \in Finished

\* no task is attempted more often than its retries allow
AttemptsBounded == \A t \in Tasks : tries[t] <= Retries(t) + 1

\* C26: pipeline_complete executes exactly when no task before it failed
\* and the notification task the branch chose succeeded, the other being
\* skipped; when the chosen notification fails after its retries
\* pipeline_complete is never executed; and the run ends (until it has
\* ended a step is possible, every step adds an attempt or ends a task,
\* and the attempts are bounded) in exactly one of: pipeline_complete
\* executed, some task failed.
C26_EndOfRun ==
    /\ [](EndOfRun /\ AttemptsBounded /\ (~RunEnded => ENABLED Next))
    /\ [][Progress]_vars

\* a run ended with the summary notification failed after its 4 attempts
C26_Witness ==
    /\ RunEnded
    /\ state["send_summary_notification"] = "failed"
    /\ tries["send_summary_notification"] = 4
    /\ state["send_alert_notification"] = "skipped"
    /\ state["pipeline_complete"] = "upstream_failed"

(***************************************************************************)
(* C27, checked under SpecCore.                                            *)
(***************************************************************************)
\* C27: every batch validate_crypto_data accepts passes through the rest
\* of the core without an error: transform_crypto_data, analyze_for_alerts
\* at threshold 5.0 and the composer the analysis selects all return.
C27_AcceptedBatchCompletes ==
    is_valid = <<TRUE>> =>
        /\ transformed_data # <<>> => transformed_data[1].ok
        /\ (analysis # <<>> /\ alert_threshold = ALERT_THRESHOLD) =>
              \A i \in DOMAIN analysis : analysis[i].ok
        /\ composed # <<>> => composed[1].ok

(***************************************************************************)
(* C28, checked under Spec.                                                *)
(***************************************************************************)
\* C28: at most one notification message is delivered per run, also when
\* a send attempt is reported as failed and the notification task is
\* retried: the recipient never receives the run's message more than once.
C28_AtMostOneDelivery == Len(delivered) <= 1

(***************************************************************************)
(* C29, checked under SpecStore.                                           *)
(***************************************************************************)
LoadedIds == { last_call[1].data_list[i].id : i \in DOMAIN last_call[1].data_list }

\* the row is keyed by the call's run timestamp and an id of its batch
KeyedByCall(r) ==
    /\ r.execution_date = last_call[1].execution_date
    /\ r.coin_id \in LoadedIds

\* C29: insert_crypto_data for run timestamp T changes only rows keyed by
\* (T, id) for the ids of the loaded batch: every row under another run
\* timestamp, and every row under T whose id is not in the batch, is the
\* same before and after the call, and a call with an empty batch changes
\* nothing.
C29_OnlyRowsOfTheCall ==
    last_call # <<>> =>
        /\ \A r \in last_call[1].rows_before : ~KeyedByCall(r) => r \in store
        /\ \A r \in store : ~KeyedByCall(r) => r \in last_call[1].rows_before
        /\ last_call[1].data_list = <<>> => store = last_call[1].rows_before

\* a committed call that changed the store, which held a row of the other
\* run and a row of the same run under another id
C29_Witness ==
    /\ last_call # <<>>
    /\ last_call[1].ok
    /\ store # last_call[1].rows_before
    /\ \E r \in last_call[1].rows_before :
          /\ r.execution_date # last_call[1].execution_date
          /\ r.coin_id \in LoadedIds
    /\ \E r \in last_call[1].rows_before :
          /\ r.execution_date = last_call[1].execution_date
          /\ r.coin_id \notin LoadedIds

(***************************************************************************)
(* C30, checked under Spec.                                                *)
(***************************************************************************)
\* the default lookback of the alert history, in hours
LookbackHours == 168

\* the times the dashboard asks at: the hour after the run, the last hour
\* of its lookback, and the hour after that
QueryTimes == {logical_date + 1, logical_date + LookbackHours, logical_date + LookbackHours + 1}

\* the assets a frame names for the run
AssetsOfRun(frame) ==
    { frame[i].coin_id : i \in { j \in DOMAIN frame : frame[j].execution_date = logical_date } }

\* the assets of the AlertReport the run computed
ReportedAssets ==
    IF xcom["analyze_for_alerts"] = <<>> THEN {}
    ELSE IF ~xcom["analyze_for_alerts"][1].has_alert THEN {}
    ELSE { e.coin_id : e \in Range(xcom["analyze_for_alerts"][1].alert_data.alerts) }

TookSummaryPath ==
    /\ xcom["check_alert_condition"] # <<>>
    /\ xcom["check_alert_condition"][1] = "send_summary_notification"

\* C30: for every run that was loaded and has ended, asked inside the
\* lookback window, the assets the alert history returns for the run's
\* timestamp are the assets of the AlertReport the run computed at
\* threshold 5.0, and there are none exactly when the run took the summary
\* path.
C30_HistoryAgreesWithDecision ==
    (state["load_to_database"] = "success" /\ RunEnded) =>
        \A utcnow \in QueryTimes :
            logical_date >= utcnow - LookbackHours =>
                \A frame \in get_alert_history(store, utcnow, LookbackHours) :
                    /\ AssetsOfRun(frame) = ReportedAssets
                    /\ AssetsOfRun(frame) = {} <=> TookSummaryPath
====
